---- MODULE Spec2Model ----
(***************************************************************************)
(* cargo-hfmp: the OTA container tool of src/main.rs.                      *)
(*                                                                         *)
(* Bytes are integers 0..255, byte strings are sequences of bytes.  The    *)
(* u32 and u64 header fields are kept as their little-endian bytes (the    *)
(* values of a u32 do not fit the model checker's integers).               *)
(*                                                                         *)
(*   Spec       the command line: encode and decode invocations against a  *)
(*              project directory whose temp file survives between runs    *)
(*   SpecCodec  one encode of a healthy project followed by one decode of  *)
(*              the file it wrote, intact or damaged                       *)
(*   SpecLive   run_command_live: main thread, two reader threads, child,  *)
(*              under the scheduler's fairness                             *)
(***************************************************************************)
EXTENDS Integers, Sequences, FiniteSets, TLC

(***************************************************************************)
(* Bounds of the model.                                                    *)
(***************************************************************************)
MaxPayloadLen == 9      \* firmware images of 0..MaxPayloadLen bytes
PipeCap == 1            \* chunks a pipe holds before a write blocks
MaxChunks == 3          \* chunks the child writes at most
ShortHashLen == 7       \* length of the usual `git rev-parse --short` hash
BuildTime == 1700000000 \* the clock reading of an encode run

(***************************************************************************)
(* Program constants.                                                      *)
(***************************************************************************)
HEAD_SIZE == 512        \* size_of::<OtaHead>()
VERSION_CAP == 32       \* version: [u8; 32]
NAME_CAP == 16          \* project_name: [u8; 16]
VERSION_MAX == 31       \* gh.len() > 31
NAME_MAX == 15          \* project_name.len() > 15
RESERVED_LEN == 446     \* reserved: [u8; 446]
CRC_SKIP == 6           \* checksum(&total_bytes[6..])
ALIGN == 8              \* file_bytes.len() % 8
PAD_BYTE == 255         \* file_bytes.push(0xFF)
PANIC_EXIT == 101       \* exit status of a Rust process whose main panicked

\* 0xABCD5432 as the four bytes a little-endian u32 occupies
MAGIC_WORD == <<50, 84, 205, 171>>

Byte == 0..255

Zeros(n) == [i \in 1..n |-> 0]

(***************************************************************************)
(* Bit operations on bytes.                                                *)
(***************************************************************************)
RECURSIVE XorBits(_, _, _)
XorBits(a, b, n) ==
    IF n = 0 THEN 0
    ELSE ((a + b) % 2) + 2 * XorBits(a \div 2, b \div 2, n - 1)

Xor8 == [a \in Byte |-> [b \in Byte |-> XorBits(a, b, 8)]]

RECURSIVE Pow2(_)
Pow2(n) == IF n = 0 THEN 1 ELSE 2 * Pow2(n - 1)

\* the buffer with bit `bit` of the byte at 0-based offset `off` inverted
FlipBit(bytes, off, bit) ==
    [bytes EXCEPT ![off + 1] = Xor8[@][Pow2(bit)]]

(***************************************************************************)
(* CRC-16/IBM-SDLC (X.25): polynomial 0x1021 reflected (0x8408), initial   *)
(* value 0xFFFF, final xor 0xFFFF, input and output reflected.             *)
(***************************************************************************)
RECURSIVE CrcShift(_, _)
CrcShift(c, n) ==
    IF n = 0 THEN c
    ELSE CrcShift(IF c % 2 = 1 THEN XorBits(c \div 2, 33800, 16)
                               ELSE c \div 2, n - 1)

X25Table == [i \in Byte |-> CrcShift(i, 8)]

CrcUpdate(crc, byte) ==
    LET t == X25Table[Xor8[crc % 256][byte]]
    IN  (t \div 256) * 256 + Xor8[crc \div 256][t % 256]

\* the register after bytes[lo..hi]; the test on crc makes the left half
\* be evaluated before the right half is entered
RECURSIVE CrcFold(_, _, _, _)
CrcFold(bytes, lo, hi, crc) ==
    IF lo > hi \/ crc < 0 THEN crc
    ELSE IF lo = hi THEN CrcUpdate(crc, bytes[lo])
    ELSE LET mid == (lo + hi) \div 2
         IN  CrcFold(bytes, mid + 1, hi, CrcFold(bytes, lo, mid, crc))

X25Checksum(bytes) == 65535 - CrcFold(bytes, 1, Len(bytes), 65535)

\* a checksum of the payload alone
ChecksumRangePayloadOnly(bytes) == SubSeq(bytes, 513, Len(bytes))

\* &total_bytes[6..]
ChecksumRange(bytes) == SubSeq(bytes, CRC_SKIP + 1, Len(bytes))

\* crc.to_le_bytes()
U16Le(v) == <<v % 256, v \div 256>>

\* `len as u32` in little-endian order: the low 32 bits of the length
U32Le(n) ==
    <<n % 256, (n \div 256) % 256, (n \div 65536) % 256,
      (n \div 16777216) % 256>>

\* a u64 below 2^31 in little-endian order
U64Le(n) == U32Le(n) \o Zeros(4)


(***************************************************************************)
(* Header codec: the packed struct OtaHead and its byte image.             *)
(***************************************************************************)
OtaHead(magic_word, crc, version, project_name, timestamp, size, reserved) ==
    [magic_word |-> magic_word, crc |-> crc, version |-> version,
     project_name |-> project_name, timestamp |-> timestamp,
     size |-> size, reserved |-> reserved]

\* ota_head.as_bytes(): the fields in declaration order, no padding
AsBytes(h) ==
    h.magic_word \o U16Le(h.crc) \o h.version \o h.project_name
        \o h.timestamp \o h.size \o h.reserved

\* OtaHead::try_read_from_bytes: every bit pattern of the right size is a
\* valid OtaHead (integer fields only, alignment 1)
TryReadFromBytes(b) ==
    IF Len(b) # HEAD_SIZE
    THEN [ok |-> FALSE,
          head |-> OtaHead(Zeros(4), 0, Zeros(VERSION_CAP), Zeros(NAME_CAP),
                           Zeros(8), Zeros(4), Zeros(RESERVED_LEN))]
    ELSE [ok |-> TRUE,
          head |-> OtaHead(SubSeq(b, 1, 4), b[5] + 256 * b[6],
                           SubSeq(b, 7, 38), SubSeq(b, 39, 54),
                           SubSeq(b, 55, 62), SubSeq(b, 63, 66),
                           SubSeq(b, 67, 512))]

(***************************************************************************)
(* The steps of encode.                                                    *)
(***************************************************************************)
\* .replace(" ", "").replace("\t", "").replace("\n", "")
IsBlank(c) == c \in {32, 9, 10}
CleanHash(raw) == SelectSeq(raw, LAMBDA c : ~IsBlank(c))

DirtySuffix == <<45, 100, 105, 114, 116, 121>>            \* "-dirty"
OtaSuffix == <<45, 111, 116, 97, 46, 98, 105, 110>>       \* "-ota.bin"

\* if git_is_dirty { format!("{}-dirty", git_hash) } else { git_hash }
GitVersion(hash, git_is_dirty) ==
    IF git_is_dirty THEN hash \o DirtySuffix ELSE hash

\* a limit that forgets the terminator
TooLongOffByOne(s, max) == Len(s) > max + 1

TooLong(s, max) == Len(s) > max

\* push(0), then copy into a zeroed array of cap bytes
CField(s, cap) == [i \in 1..cap |-> IF i <= Len(s) THEN s[i] ELSE 0]

\* while file_bytes.len() % 8 != 0 { file_bytes.push(0xFF) }
PadLen(n) == (ALIGN - (n % ALIGN)) % ALIGN
\* padding with zero bytes
PadPayloadZero(file_bytes) ==
    file_bytes \o [i \in 1..PadLen(Len(file_bytes)) |-> 0]

PadPayload(file_bytes) ==
    file_bytes \o [i \in 1..PadLen(Len(file_bytes)) |-> PAD_BYTE]

\* format!("{}-{}-ota.bin", name, git_hash)
FileName(name, git_hash) == name \o <<45>> \o git_hash \o OtaSuffix

\* header with crc 0, header ++ payload, checksum patched into bytes 4 and 5
Container(version, project_name, timestamp, file_bytes) ==
    LET ota_head == OtaHead(MAGIC_WORD, 0, version, project_name,
                            U64Le(timestamp), U32Le(Len(file_bytes)),
                            Zeros(RESERVED_LEN))
        total_bytes == AsBytes(ota_head) \o file_bytes
        crc_bytes == U16Le(X25Checksum(ChecksumRange(total_bytes)))
    IN  [total_bytes EXCEPT ![5] = crc_bytes[1], ![6] = crc_bytes[2]]

(***************************************************************************)
(* String::from_utf8_lossy: the text as a sequence of code points; every   *)
(* maximal ill-formed chunk becomes one U+FFFD.                            *)
(***************************************************************************)
REPLACEMENT == 65533

\* safe_get: the byte at index i, 0 past the end
ByteAt(b, i) == IF i <= Len(b) THEN b[i] ELSE 0

IsCont(c) == c \in 128..191

\* utf8_char_width
Utf8Width(c) ==
    IF c < 128 THEN 1
    ELSE IF c \in 194..223 THEN 2
    ELSE IF c \in 224..239 THEN 3
    ELSE IF c \in 240..244 THEN 4
    ELSE 0

\* the second byte a three- or four-byte sequence admits after lead byte c
SecondOk(c, d) ==
    \/ c = 224 /\ d \in 160..191
    \/ c \in 225..236 /\ d \in 128..191
    \/ c = 237 /\ d \in 128..159
    \/ c \in 238..239 /\ d \in 128..191
    \/ c = 240 /\ d \in 144..191
    \/ c \in 241..243 /\ d \in 128..191
    \/ c = 244 /\ d \in 128..143

\* [n |-> bytes consumed at i, cp |-> code point]
Utf8Step(b, i) ==
    LET c == b[i]
        w == Utf8Width(c)
        d == ByteAt(b, i + 1)
        e == ByteAt(b, i + 2)
        f == ByteAt(b, i + 3)
    IN  IF w = 1 THEN [n |-> 1, cp |-> c]
        ELSE IF w = 2
        THEN IF IsCont(d) THEN [n |-> 2, cp |-> (c - 192) * 64 + (d - 128)]
             ELSE [n |-> 1, cp |-> REPLACEMENT]
        ELSE IF w = 3
        THEN IF ~SecondOk(c, d) THEN [n |-> 1, cp |-> REPLACEMENT]
             ELSE IF ~IsCont(e) THEN [n |-> 2, cp |-> REPLACEMENT]
             ELSE [n |-> 3,
                   cp |-> (c - 224) * 4096 + (d - 128) * 64 + (e - 128)]
        ELSE IF w = 4
        THEN IF ~SecondOk(c, d) THEN [n |-> 1, cp |-> REPLACEMENT]
             ELSE IF ~IsCont(e) THEN [n |-> 2, cp |-> REPLACEMENT]
             ELSE IF ~IsCont(f) THEN [n |-> 3, cp |-> REPLACEMENT]
             ELSE [n |-> 4,
                   cp |-> (c - 240) * 262144 + (d - 128) * 4096
                          + (e - 128) * 64 + (f - 128)]
        ELSE [n |-> 1, cp |-> REPLACEMENT]

RECURSIVE LossyFrom(_, _)
LossyFrom(b, i) ==
    IF i > Len(b) THEN <<>>
    ELSE LET st == Utf8Step(b, i)
         IN  <<st.cp>> \o LossyFrom(b, i + st.n)

FromUtf8Lossy(b) == LossyFrom(b, 1)

(***************************************************************************)
(* decode: the checks in program order and the summary it logs.            *)
(***************************************************************************)
\* a u32 field as a number
U32Value(b) == b[1] + 256 * b[2] + 65536 * b[3] + 16777216 * b[4]

Rejected(outcome, expected, actual) ==
    [outcome |-> outcome, exit |-> 1, project_name |-> <<>>,
     version |-> <<>>, timestamp |-> <<>>, firmware_size |-> 0,
     expected_crc |-> expected, actual_crc |-> actual]

\* "Valid Bin File!": the fields as the log line formats them
Summary(head, crc) ==
    [outcome |-> "Valid", exit |-> 0,
     project_name |-> FromUtf8Lossy(head.project_name),
     version |-> FromUtf8Lossy(head.version),
     timestamp |-> head.timestamp,
     firmware_size |-> U32Value(head.size),
     expected_crc |-> head.crc, actual_crc |-> crc]

CheckCrc(head, file_bytes) ==
    LET crc == X25Checksum(ChecksumRange(file_bytes))
    IN  IF crc # head.crc
        THEN Rejected("ChecksumMismatch", head.crc, crc)
        ELSE Summary(head, crc)

CheckMagic(head, file_bytes) ==
    IF head.magic_word # MAGIC_WORD
    THEN Rejected("BadMagic", 0, 0)
    ELSE CheckCrc(head, file_bytes)

\* the checksum compared before the magic word
DecodeBytesCrcFirst(file_bytes) ==
    IF Len(file_bytes) < HEAD_SIZE
    THEN Rejected("TooShort", 0, 0)
    ELSE LET parsed == TryReadFromBytes(SubSeq(file_bytes, 1, HEAD_SIZE))
             checked == CheckCrc(parsed.head, file_bytes)
         IN  IF ~parsed.ok
             THEN Rejected("Malformed", 0, 0)
             ELSE IF checked.outcome # "Valid" THEN checked
             ELSE IF parsed.head.magic_word # MAGIC_WORD
             THEN Rejected("BadMagic", 0, 0)
             ELSE checked

DecodeBytes(file_bytes) ==
    IF Len(file_bytes) < HEAD_SIZE
    THEN Rejected("TooShort", 0, 0)
    ELSE LET parsed == TryReadFromBytes(SubSeq(file_bytes, 1, HEAD_SIZE))
         IN  IF ~parsed.ok
             THEN Rejected("Malformed", 0, 0)
             ELSE CheckMagic(parsed.head, file_bytes)

(***************************************************************************)
(* State.                                                                  *)
(*   temp  xstd-app-tool-temp.bin in the project directory                 *)
(*   last  the latest invocation: the inputs it read, how it ended, the    *)
(*         file it wrote (encode) or read (decode), what decode reported   *)
(*   main, reader, pipe, wopen, ropen, child, reaped                       *)
(*         one call of run_command_live, see below                         *)
(***************************************************************************)
VARIABLES temp, last, main, reader, pipe, wopen, ropen, child, reaped

cliVars == <<temp, last>>
runVars == <<main, reader, pipe, wopen, ropen, child, reaped>>
vars == <<temp, last, main, reader, pipe, wopen, ropen, child, reaped>>

NoFile == [exists |-> FALSE, file_name |-> <<>>, bytes |-> <<>>]
File(file_name, bytes) ==
    [exists |-> TRUE, file_name |-> file_name, bytes |-> bytes]
TempName == <<116, 101, 109, 112>>                      \* the temp file

NoManifest == [kind |-> "unread", name |-> <<>>]
NoGit == [kind |-> "unread", hash |-> <<>>, dirty |-> FALSE]
NoObjcopy == [kind |-> "unread", effect |-> "kept", image |-> <<>>]
NoEnv ==
    [stage |-> 0, manifest |-> NoManifest, git |-> NoGit,
     bin_exists |-> FALSE, objcopy |-> NoObjcopy, now |-> 0]
NoDamage == [kind |-> "none", off |-> 0, bit |-> 0]
NoReport == Rejected("none", 0, 0)

(***************************************************************************)
(* What the environment hands to one encode run.                           *)
(***************************************************************************)
\* stdout of `git rev-parse --short HEAD`
RevParseStdout(git) ==
    IF git.kind = "repo" THEN git.hash \o <<10>> ELSE <<>>

\* exit status of `git status --porcelain`: 0 inside a repository, with or
\* without uncommitted changes; 128 outside one
GitStatusSuccess(git) == git.kind = "repo"

\* the file at objcopy's output path once the child has exited: a child
\* that fails may have written part of the image, may have unlinked the
\* path, or may not have touched it
OutputAfter(objcopy, old) ==
    IF objcopy.effect = "written" THEN File(TempName, objcopy.image)
    ELSE IF objcopy.effect = "removed" THEN NoFile
    ELSE old

EncodeEnd(outcome, exit, env, temp1, file) ==
    /\ last' = [cmd |-> "encode", outcome |-> outcome, exit |-> exit,
                env |-> env, file |-> file, damage |-> NoDamage,
                report |-> NoReport]
    /\ temp' = temp1
    /\ UNCHANGED runVars

\* lines 172-234: after objcopy has run, whatever its status
Frame(E, env, project_name, git_hash, temp1) ==
    IF TooLong(project_name, NAME_MAX)
    THEN EncodeEnd("NameTooLong", PANIC_EXIT, env, temp1, NoFile)
    ELSE IF ~temp1.exists
    THEN EncodeEnd("TempUnreadable", PANIC_EXIT, env, temp1, NoFile)
    ELSE \E now \in E.now :
           EncodeEnd("Written", 0, [env EXCEPT !.stage = 6, !.now = now],
                     NoFile,
                     File(FileName(project_name, git_hash),
                          Container(CField(git_hash, VERSION_CAP),
                                    CField(project_name, NAME_CAP), now,
                                    PadPayload(temp1.bytes))))

\* lines 136-171: the built binary and the objcopy child
Extract(E, env, project_name, git_hash) ==
    \E bin_exists \in E.bin_exists :
      LET env4 == [env EXCEPT !.stage = 4, !.bin_exists = bin_exists]
      IN  IF ~bin_exists
          THEN EncodeEnd("BinMissing", 0, env4, temp, NoFile)
          ELSE \E objcopy \in E.objcopy :
                 LET env5 == [env4 EXCEPT !.stage = 5, !.objcopy = objcopy]
                 IN  IF objcopy.kind = "nospawn"
                     THEN EncodeEnd("SpawnFailed", PANIC_EXIT, env5, temp,
                                    NoFile)
                     ELSE IF objcopy.kind = "unreadable"
                     THEN EncodeEnd("OutputUnreadable", PANIC_EXIT, env5,
                                    OutputAfter(objcopy, temp), NoFile)
                     ELSE Frame(E, env5, project_name, git_hash,
                                OutputAfter(objcopy, temp))

\* lines 99-134: the version string
Version(E, env, manifest) ==
    \E git \in E.git :
      LET env3 == [env EXCEPT !.stage = 3, !.git = git]
          git_hash == GitVersion(CleanHash(RevParseStdout(git)),
                                 GitStatusSuccess(git))
      IN  IF git.kind = "missing"
          THEN EncodeEnd("GitMissing", PANIC_EXIT, env3, temp, NoFile)
          ELSE IF TooLong(git_hash, VERSION_MAX)
          THEN EncodeEnd("GitHashTooLong", PANIC_EXIT, env3, temp, NoFile)
          ELSE Extract(E, env3, manifest.name, git_hash)

\* async fn encode(path)
encode(E) ==
    \E path_exists \in E.path_exists :
      IF ~path_exists
      THEN EncodeEnd("NoProjectDir", 0, [NoEnv EXCEPT !.stage = 1], temp,
                     NoFile)
      ELSE \E manifest \in E.manifest :
             LET env2 == [NoEnv EXCEPT !.stage = 2, !.manifest = manifest]
             IN  IF manifest.kind = "missing"
                 THEN EncodeEnd("ManifestUnreadable", PANIC_EXIT, env2, temp,
                                NoFile)
                 ELSE IF manifest.kind = "plain"
                 THEN EncodeEnd("NotEmbedded", 1, env2, temp, NoFile)
                 ELSE Version(E, env2, manifest)

\* async fn decode(path): F is what the file at path may hold
decode(F) ==
    \E in \in F :
      LET r == DecodeBytes(in.file.bytes)
      IN  /\ last' = [cmd |-> "decode", outcome |-> r.outcome,
                      exit |-> r.exit, env |-> in.env, file |-> in.file,
                      damage |-> in.damage, report |-> r]
          /\ UNCHANGED <<temp, runVars>>

(***************************************************************************)
(* run_command_live(cmd, what).  The child was spawned by the caller with  *)
(* both streams piped and is already running.  The main thread spawns one  *)
(* reader thread per stream, joins them, then waits on the child.          *)
(*   main    where the main thread is in ProgramOrder, and how it ended    *)
(*   reader  per stream: "none", "reading", "done", "panicked", "killed"   *)
(*   pipe    per stream: the chunks written and not yet read; a chunk is   *)
(*           a "line" or "bad" (no valid UTF-8, or a read error)           *)
(*   wopen   per stream: the child holds the write end                     *)
(*   ropen   per stream: this process holds the read end                   *)
(*   child   the child process                                             *)
(*   reaped  the exit status wait() returned, "none" before                *)
(***************************************************************************)
Streams == {"stdout", "stderr"}

Op(op, s) == [op |-> op, s |-> s]

\* waiting on the child before the readers are joined
ProgramOrderWaitFirst ==
    <<Op("spawn", "stdout"), Op("spawn", "stderr"), Op("wait", "-"),
      Op("join", "stdout"), Op("join", "stderr"), Op("return", "-")>>

\* lines 57-77 in program order
ProgramOrder ==
    <<Op("spawn", "stdout"), Op("spawn", "stderr"), Op("join", "stdout"),
      Op("join", "stderr"), Op("wait", "-"), Op("return", "-")>>

Running == main.state = "running"
At == ProgramOrder[main.at]
Advance == main' = [main EXCEPT !.at = @ + 1]

InitRun ==
    /\ main = [at |-> 1, state |-> "running"]
    /\ reader = [s \in Streams |-> "none"]
    /\ pipe = [s \in Streams |-> <<>>]
    /\ wopen = [s \in Streams |-> TRUE]
    /\ ropen = [s \in Streams |-> TRUE]
    /\ child = [state |-> "running", on |-> "stdout", chunk |-> "line",
                sent |-> 0, status |-> "none"]
    /\ reaped = "none"

\* std::thread::spawn(move || ...)
MainSpawn ==
    /\ Running /\ At.op = "spawn"
    /\ reader' = [reader EXCEPT ![At.s] = "reading"]
    /\ Advance
    /\ UNCHANGED <<pipe, wopen, ropen, child, reaped, cliVars>>

\* handle.join().expect(...): a reader that panicked makes the main thread
\* panic, and the process exits with every thread and handle it had
MainJoin ==
    /\ Running /\ At.op = "join"
    /\ reader[At.s] \in {"done", "panicked"}
    /\ IF reader[At.s] = "done"
       THEN Advance /\ UNCHANGED <<reader, ropen>>
       ELSE /\ main' = [main EXCEPT !.state = "panicked"]
            /\ reader' = [s \in Streams |->
                            IF reader[s] = "reading" THEN "killed"
                            ELSE reader[s]]
            /\ ropen' = [s \in Streams |-> FALSE]
    /\ UNCHANGED <<pipe, wopen, child, reaped, cliVars>>

\* cmd.wait()
MainWait ==
    /\ Running /\ At.op = "wait"
    /\ child.state = "exited"
    /\ reaped' = child.status
    /\ Advance
    /\ UNCHANGED <<reader, pipe, wopen, ropen, child, cliVars>>

MainReturn ==
    /\ Running /\ At.op = "return"
    /\ main' = [main EXCEPT !.state = "returned"]
    /\ UNCHANGED <<reader, pipe, wopen, ropen, child, reaped, cliVars>>

MainStep == MainSpawn \/ MainJoin \/ MainWait \/ MainReturn

\* for line in reader.lines() { println!("{}", line.expect(...)) }
ReaderLine(s) ==
    /\ reader[s] = "reading"
    /\ pipe[s] # <<>>
    /\ IF Head(pipe[s]) = "line"
       THEN /\ pipe' = [pipe EXCEPT ![s] = Tail(@)]
            /\ UNCHANGED <<reader, ropen>>
       ELSE /\ reader' = [reader EXCEPT ![s] = "panicked"]
            /\ ropen' = [ropen EXCEPT ![s] = FALSE]
            /\ pipe' = [pipe EXCEPT ![s] = <<>>]
    /\ UNCHANGED <<main, wopen, child, reaped, cliVars>>

\* end of file: the pipe is empty and no write end is left
ReaderEof(s) ==
    /\ reader[s] = "reading"
    /\ pipe[s] = <<>>
    /\ ~wopen[s]
    /\ reader' = [reader EXCEPT ![s] = "done"]
    /\ ropen' = [ropen EXCEPT ![s] = FALSE]
    /\ UNCHANGED <<main, pipe, wopen, child, reaped, cliVars>>

ReaderStep(s) == ReaderLine(s) \/ ReaderEof(s)

\* the child calls write() on one of its streams
ChildBegin(s, c) ==
    /\ child.state = "running"
    /\ child.sent < MaxChunks
    /\ child' = [child EXCEPT !.state = "writing", !.on = s, !.chunk = c]
    /\ UNCHANGED <<main, reader, pipe, wopen, ropen, reaped, cliVars>>

ChildGone(status) ==
    /\ child' = [child EXCEPT !.state = "exited", !.status = status]
    /\ wopen' = [s \in Streams |-> FALSE]

\* the write returns: the chunk is in the pipe once there is room for it;
\* with the read end gone the write fails, and the child dies of SIGPIPE
\* or carries on
ChildComplete ==
    /\ child.state = "writing"
    /\ IF ropen[child.on]
       THEN /\ Len(pipe[child.on]) < PipeCap
            /\ pipe' = [pipe EXCEPT ![child.on] = Append(@, child.chunk)]
            /\ child' = [child EXCEPT !.state = "running", !.sent = @ + 1]
            /\ UNCHANGED wopen
       ELSE /\ \/ ChildGone("failed")
               \/ /\ child' = [child EXCEPT !.state = "running",
                                            !.sent = @ + 1]
                  /\ UNCHANGED wopen
            /\ UNCHANGED pipe
    /\ UNCHANGED <<main, reader, ropen, reaped, cliVars>>

\* the child exits, which closes its ends of both pipes
ChildExit(status) ==
    /\ child.state = "running"
    /\ ChildGone(status)
    /\ UNCHANGED <<main, reader, pipe, ropen, reaped, cliVars>>

ChildStep ==
    \/ \E s \in Streams, c \in {"line", "bad"} : ChildBegin(s, c)
    \/ ChildComplete
    \/ \E status \in {"ok", "failed"} : ChildExit(status)

(***************************************************************************)
(* Inputs.                                                                 *)
(***************************************************************************)
Demo == <<100, 101, 109, 111>>                          \* "demo"
LongestName == [i \in 1..NAME_MAX |-> 96 + i]
OverlongName == [i \in 1..(NAME_MAX + 1) |-> 96 + i]

Hash(n) == [i \in 1..n |-> 48 + (i % 10)]
ShortHash == Hash(ShortHashLen)
\* the longest hash that still fits with "-dirty" appended, and one more
LongestHash == Hash(VERSION_MAX - Len(DirtySuffix))
OverlongHash == Hash(VERSION_MAX - Len(DirtySuffix) + 1)

Counting(n) == [i \in 1..n |-> i]
Erased(n) == [i \in 1..n |-> PAD_BYTE]
\* every length up to the bound, and an image that ends in the fill byte
Images == {Counting(n) : n \in 0..MaxPayloadLen} \cup {Erased(3)}

Embassy(name) == [kind |-> "embassy", name |-> name]
Repo(hash, dirty) == [kind |-> "repo", hash |-> hash, dirty |-> dirty]
Objcopy(kind, effect, image) ==
    [kind |-> kind, effect |-> effect, image |-> image]

\* every way an encode run can go, on two images
CliEnv ==
    [path_exists |-> BOOLEAN,
     manifest |-> {[kind |-> "missing", name |-> <<>>],
                   [kind |-> "plain", name |-> <<>>]}
                  \cup {Embassy(n) : n \in {Demo, LongestName, OverlongName}},
     git |-> {[NoGit EXCEPT !.kind = "missing"],
              [NoGit EXCEPT !.kind = "norepo"]}
             \cup {Repo(h, d) : h \in {ShortHash, LongestHash, OverlongHash},
                                d \in BOOLEAN},
     bin_exists |-> BOOLEAN,
     objcopy |-> {Objcopy("nospawn", "kept", <<>>),
                  Objcopy("unreadable", "kept", <<>>),
                  Objcopy("failed", "kept", <<>>),
                  Objcopy("failed", "removed", <<>>),
                  Objcopy("failed", "written", Counting(2)),
                  Objcopy("ok", "written", Counting(3)),
                  Objcopy("ok", "written", Erased(ALIGN))},
     now |-> {BuildTime}]

\* a healthy project: every name, version and image
CodecEnv ==
    [path_exists |-> {TRUE},
     manifest |-> {Embassy(n) : n \in {Demo, LongestName}},
     git |-> {[NoGit EXCEPT !.kind = "norepo"], Repo(ShortHash, TRUE),
              Repo(LongestHash, TRUE)},
     bin_exists |-> {TRUE},
     objcopy |-> {Objcopy("ok", "written", img) : img \in Images},
     now |-> {BuildTime}]

Input(env, file, damage) == [env |-> env, file |-> file, damage |-> damage]

Blank(n) ==
    Input(NoEnv, File(<<>>, Zeros(n)),
          [kind |-> "blank", off |-> n, bit |-> 0])
Garbage == {Blank(HEAD_SIZE - 1), Blank(HEAD_SIZE)}

Intact(l) == Input(l.env, l.file, NoDamage)

\* the first and the last byte of every header field, and every payload byte
FlipOffsets(n) ==
    {0, 3, 4, 5, 6, 37, 38, 53, 54, 61, 62, 65, 66, 511}
        \cup HEAD_SIZE..(n - 1)

Flipped(l) ==
    {Input(l.env, [l.file EXCEPT !.bytes = FlipBit(@, off, bit)],
           [kind |-> "flip", off |-> off, bit |-> bit]) :
        off \in FlipOffsets(Len(l.file.bytes)), bit \in 0..7}

Cut(l) ==
    Input(l.env, [l.file EXCEPT !.bytes = SubSeq(@, 1, HEAD_SIZE - 1)],
          [kind |-> "cut", off |-> HEAD_SIZE - 1, bit |-> 0])

(***************************************************************************)
(* Specifications.                                                         *)
(***************************************************************************)
InitCli ==
    /\ temp = NoFile
    /\ last = [cmd |-> "none", outcome |-> "none", exit |-> 0, env |-> NoEnv,
               file |-> NoFile, damage |-> NoDamage, report |-> NoReport]

Init == InitCli /\ InitRun

EncodeCmd == encode(CliEnv)

DecodeCmd ==
    decode(Garbage \cup (IF last.cmd = "encode" /\ last.file.exists
                         THEN {Intact(last)} ELSE {}))

Next == EncodeCmd \/ DecodeCmd

Spec == Init /\ [][Next]_vars

EncodeProject == last.cmd = "none" /\ encode(CodecEnv)

DecodeFile ==
    /\ last.cmd = "encode"
    /\ last.file.exists
    /\ decode({Intact(last), Cut(last)} \cup Flipped(last) \cup Garbage)

NextCodec == EncodeProject \/ DecodeFile

SpecCodec == Init /\ [][NextCodec]_vars

NextLive == MainStep \/ (\E s \in Streams : ReaderStep(s)) \/ ChildStep

\* threads that can run do run, and a write that can return does return;
\* what the child does next is up to the child
LiveFairness ==
    /\ WF_vars(MainStep)
    /\ \A s \in Streams : WF_vars(ReaderStep(s))
    /\ WF_vars(ChildComplete)

SpecLive == Init /\ [][NextLive]_vars /\ LiveFairness

(***************************************************************************)
(* Properties.                                                             *)
(***************************************************************************)
Encoded == last.cmd = "encode"
Decoded == last.cmd = "decode"
Wrote == Encoded /\ last.file.exists

\* the characters of a byte string that is valid UTF-8
Text(s) == FromUtf8Lossy(s)

\* the version string encode computed from what git printed
VersionGiven(env) ==
    GitVersion(CleanHash(RevParseStdout(env.git)), GitStatusSuccess(env.git))

HeadOf(file) == TryReadFromBytes(SubSeq(file.bytes, 1, HEAD_SIZE)).head
PayloadOf(file) == SubSeq(file.bytes, HEAD_SIZE + 1, Len(file.bytes))

\* C1: decoding the file encode wrote, untouched, succeeds and reports the
\* project name and the version string given to encode and the padded
\* payload length.
C1_RoundTrip ==
    (Decoded /\ last.damage.kind = "none") =>
        /\ last.outcome = "Valid"
        /\ last.report.project_name = Text(last.env.manifest.name)
        /\ last.report.version = Text(VersionGiven(last.env))
        /\ last.report.firmware_size
               = Len(last.env.objcopy.image)
                     + PadLen(Len(last.env.objcopy.image))

\* C2: decode reports the first check, in the order length, parse, magic
\* word, checksum, that the buffer fails: a buffer under 512 bytes is
\* TooShort whatever it holds, a buffer of 512 bytes or more whose magic
\* word is wrong is BadMagic whatever its checksum, and only a buffer that
\* passed both is judged by its checksum; Malformed never comes first.
C2_CheckOrder ==
    Decoded =>
        LET n == Len(last.file.bytes)
            magic_ok == SubSeq(last.file.bytes, 1, 4) = MAGIC_WORD
        IN  /\ (n < HEAD_SIZE) <=> (last.outcome = "TooShort")
            /\ (n >= HEAD_SIZE /\ ~magic_ok) <=> (last.outcome = "BadMagic")
            /\ (n >= HEAD_SIZE /\ magic_ok)
                   <=> (last.outcome \in {"ChecksumMismatch", "Valid"})
            /\ (last.outcome = "Valid")
                   => (last.report.expected_crc = last.report.actual_crc)
            /\ (last.outcome = "ChecksumMismatch")
                   => (last.report.expected_crc # last.report.actual_crc)
            /\ (last.damage.kind = "blank" /\ n = HEAD_SIZE - 1)
                   => (last.outcome = "TooShort")
            /\ (last.damage.kind = "blank" /\ n = HEAD_SIZE)
                   => (last.outcome = "BadMagic")
            /\ (last.damage.kind = "flip" /\ last.damage.off < 4)
                   => (last.outcome = "BadMagic")
            /\ last.exit = (IF last.outcome = "Valid" THEN 0 ELSE 1)

\* a container whose magic word is wrong and whose stored checksum still
\* matches was rejected as BadMagic
C2_Witness ==
    /\ Decoded
    /\ last.damage.kind = "flip"
    /\ last.damage.off < 4
    /\ last.outcome = "BadMagic"

\* the checksum the intact container stored, read back through the damage
StoredBefore(l) ==
    LET intact == FlipBit(l.file.bytes, l.damage.off, l.damage.bit)
    IN  intact[5] + 256 * intact[6]

\* C3: one flipped bit at an offset of 6 or more in a container encode
\* wrote is rejected as ChecksumMismatch; a flipped bit in the crc field
\* leaves the recomputed checksum what it was, so the mismatch it causes
\* reports the intact container's checksum as the actual value.
C3_ChecksumSensitivity ==
    (Decoded /\ last.damage.kind = "flip") =>
        /\ (last.damage.off >= CRC_SKIP)
               => (last.outcome = "ChecksumMismatch")
        /\ (last.damage.off \in {4, 5})
               => /\ last.outcome = "ChecksumMismatch"
                  /\ last.report.actual_crc = StoredBefore(last)

\* a bit of the header's reserved tail was flipped and the checksum caught it
C3_Witness ==
    /\ Decoded
    /\ last.damage.kind = "flip"
    /\ last.damage.off = HEAD_SIZE - 1
    /\ last.outcome = "ChecksumMismatch"

\* C4: after the header the container holds the image byte for byte, then
\* the fewest 0xFF bytes that bring the length to a multiple of 8; the size
\* field is that padded length and the file is 512 bytes longer than it.
C4_Padding ==
    (Wrote /\ last.env.objcopy.kind = "ok") =>
        LET image == last.env.objcopy.image
            body == PayloadOf(last.file)
            k == Len(body) - Len(image)
        IN  /\ k \in 0..(ALIGN - 1)
            /\ Len(body) % ALIGN = 0
            /\ SubSeq(body, 1, Len(image)) = image
            /\ \A i \in (Len(image) + 1)..Len(body) : body[i] = PAD_BYTE
            /\ HeadOf(last.file).size = U32Le(Len(body))
            /\ Len(last.file.bytes) = HEAD_SIZE + Len(body)

\* a three-byte image was framed as eight payload bytes
C4_Witness ==
    /\ Wrote
    /\ Len(last.env.objcopy.image) = 3
    /\ Len(last.file.bytes) = HEAD_SIZE + ALIGN

Succeeded ==
    \/ Encoded /\ last.outcome = "Written" /\ last.env.objcopy.kind = "ok"
    \/ Decoded /\ last.outcome = "Valid"

\* C6: the process exits with status zero exactly when the requested
\* operation completed; every failure ends it with a non-zero status.
C6_ExitStatus ==
    (Encoded \/ Decoded) => ((last.exit = 0) <=> Succeeded)

\* C7: the project name and the version a successful decode reports are the
\* header fields without their trailing zero bytes.
C7_NullsStripped ==
    (Decoded /\ last.outcome = "Valid" /\ last.damage.kind = "none") =>
        /\ HeadOf(last.file).project_name
               = CField(last.env.manifest.name, NAME_CAP)
        /\ last.report.project_name = Text(last.env.manifest.name)
        /\ \A i \in 1..Len(last.report.project_name) :
               last.report.project_name[i] # 0
        /\ \A i \in 1..Len(last.report.version) :
               last.report.version[i] # 0

\* C9: an output file is written only by a run whose objcopy exited
\* successfully, and its payload is the image that objcopy extracted.
C9_OnlyAfterExtraction ==
    Wrote =>
        /\ last.env.objcopy.kind = "ok"
        /\ PayloadOf(last.file) = PadPayload(last.env.objcopy.image)

\* C10: inside a repository the stored version and the file name carry the
\* "-dirty" suffix exactly when the working tree has uncommitted changes.
C10_DirtySuffix ==
    (Wrote /\ last.env.git.kind = "repo") =>
        LET hash == last.env.git.hash
            shown == IF last.env.git.dirty THEN hash \o DirtySuffix ELSE hash
        IN  /\ HeadOf(last.file).version = CField(shown, VERSION_CAP)
            /\ last.file.file_name
                   = FileName(last.env.manifest.name, shown)

\* the exit status is known only once both readers have read to the end
StatusAfterDrain ==
    (reaped # "none") =>
        \A s \in Streams : reader[s] = "done" /\ pipe[s] = <<>>

\* wait() is entered only with both readers joined
WaitAfterJoins ==
    (Running /\ At.op = "wait") => \A s \in Streams : reader[s] = "done"

NeverStuck == (child.state = "writing") ~> (child.state # "writing")

\* C8 as stated: the status is inspected after both streams are drained,
\* no write of the child blocks forever, and once the child has exited
\* run_command_live returns its status.
C8_AsStated ==
    /\ [](StatusAfterDrain /\ WaitAfterJoins)
    /\ NeverStuck
    /\ (child.state = "exited")
           ~> (main.state = "returned" /\ reaped = child.status)

\* C8 amended: the same, except that a reader that cannot read a line
\* panics, and run_command_live then panics at the join without waiting.
C8_DrainThenWait ==
    /\ [](StatusAfterDrain /\ WaitAfterJoins)
    /\ NeverStuck
    /\ (child.state = "exited")
           ~> \/ main.state = "returned" /\ reaped = child.status
              \/ main.state = "panicked" /\ reaped = "none"
    /\ [](main.state = "panicked"
              => \E s \in Streams : reader[s] = "panicked")

\* the child wrote more than a pipe holds and the call returned its status
C8_Witness ==
    /\ main.state = "returned"
    /\ reaped = child.status
    /\ child.sent = MaxChunks
====
